---- MODULE Spec2Model ----
(***************************************************************************)
(* The "STEEP & FAST" p5.js sketch (auto-fit variant): the geometry        *)
(* primitives, the auto-fit computation of draw(), the ordered draw calls  *)
(* issued through the p5 transform stack, and the two event handlers.      *)
(*                                                                         *)
(* A JavaScript Number is modelled as an exact rational over unbounded     *)
(* integers (sequences of base-10^4 limbs), extended with +/-Infinity.     *)
(* IEEE rounding is not modelled.  Math.cos / Math.sin / Math.tan are      *)
(* tables of the library's values rounded to six decimals.                 *)
(*                                                                         *)
(* A local constant of the source that is read more than once is the       *)
(* parameter of an operator holding the statements that read it.           *)
(***************************************************************************)
EXTENDS Integers, Sequences, FiniteSets

(* ------------------------- unbounded naturals ------------------------- *)
\* limbs are little-endian, canonical: no most-significant zero limb, 0 = <<>>
Base == 10 ^ 4

RECURSIVE NatOf(_)
NatOf(k) == IF k = 0 THEN <<>> ELSE <<k % Base>> \o NatOf(k \div Base)

\* a + b + c for a carry c
RECURSIVE NatAddC(_, _, _)
NatAddC(a, b, c) ==
    IF b = <<>> /\ c = 0 THEN a
    ELSE IF a = <<>> /\ c = 0 THEN b
    ELSE IF a = <<>> THEN NatAddC(<<c>>, b, 0)
    ELSE IF b = <<>> THEN NatAddC(a, <<c>>, 0)
    ELSE <<(Head(a) + Head(b) + c) % Base>>
         \o NatAddC(Tail(a), Tail(b), (Head(a) + Head(b) + c) \div Base)

NatAdd(a, b) == NatAddC(a, b, 0)

RECURSIVE NatStrip(_)
NatStrip(a) ==
    IF a = <<>> THEN a
    ELSE IF a[Len(a)] = 0 THEN NatStrip(SubSeq(a, 1, Len(a) - 1))
    ELSE a

\* a - b - br for a >= b + br and a borrow br, before the zero limbs are stripped
RECURSIVE NatSubB(_, _, _)
NatSubB(a, b, br) ==
    IF b = <<>> /\ br = 0 THEN a
    ELSE IF b = <<>> THEN NatSubB(a, <<br>>, 0)
    ELSE IF Head(a) - Head(b) - br < 0
    THEN <<Head(a) - Head(b) - br + Base>> \o NatSubB(Tail(a), Tail(b), 1)
    ELSE <<Head(a) - Head(b) - br>> \o NatSubB(Tail(a), Tail(b), 0)

NatSub(a, b) == NatStrip(NatSubB(a, b, 0))

\* a * m + c for a limb m and a carry c
RECURSIVE NatMulLimb(_, _, _)
NatMulLimb(a, m, c) ==
    IF a = <<>> THEN (IF c = 0 THEN <<>> ELSE <<c>>)
    ELSE <<(Head(a) * m + c) % Base>> \o NatMulLimb(Tail(a), m, (Head(a) * m + c) \div Base)

NatShift(a) == IF a = <<>> THEN a ELSE <<0>> \o a

RECURSIVE NatMul(_, _)
NatMul(a, b) ==
    IF a = <<>> \/ b = <<>> THEN <<>>
    ELSE NatAdd(NatMulLimb(a, Head(b), 0), NatShift(NatMul(a, Tail(b))))

\* -1, 0, 1 as a < b, a = b, a > b
RECURSIVE NatCmpAt(_, _, _)
NatCmpAt(a, b, i) ==
    IF i = 0 THEN 0
    ELSE IF a[i] < b[i] THEN -1
    ELSE IF a[i] > b[i] THEN 1
    ELSE NatCmpAt(a, b, i - 1)

NatCmp(a, b) ==
    IF Len(a) < Len(b) THEN -1
    ELSE IF Len(a) > Len(b) THEN 1
    ELSE NatCmpAt(a, b, Len(a))

(* ------------------------- unbounded integers ------------------------- *)
\* sign and magnitude; zero is never negative
IntOfMag(neg, mag) == [neg |-> neg /\ mag # <<>>, mag |-> mag]

IntOf(k) == IF k < 0 THEN IntOfMag(TRUE, NatOf(0 - k)) ELSE IntOfMag(FALSE, NatOf(k))

IntNeg(a) == IntOfMag(~a.neg, a.mag)

IntSign(a) == IF a.mag = <<>> THEN 0 ELSE IF a.neg THEN -1 ELSE 1

\* big + small for opposite signs and |big| > |small|
IntLarger(big, small) == IntOfMag(big.neg, NatSub(big.mag, small.mag))

\* a + b for opposite signs, c the comparison of the magnitudes
IntDiff(a, b, c) ==
    IF c = 0 THEN IntOfMag(FALSE, <<>>)
    ELSE IntLarger(IF c > 0 THEN a ELSE b, IF c > 0 THEN b ELSE a)

IntAdd(a, b) ==
    IF a.neg = b.neg THEN IntOfMag(a.neg, NatAdd(a.mag, b.mag))
    ELSE IntDiff(a, b, NatCmp(a.mag, b.mag))

IntMulNat(a, m) == IntOfMag(a.neg, NatMul(a.mag, m))

(* ------------------------------ Number -------------------------------- *)
\* a finite Number is n/d with d >= 1; inf is 1 for Infinity, -1 for -Infinity
Num(k) == [inf |-> 0, n |-> IntOf(k), d |-> <<1>>]
Frac(p, q) == [inf |-> 0, n |-> IntOf(p), d |-> NatOf(q)]
Infinity == [inf |-> 1, n |-> IntOf(0), d |-> <<1>>]
NegInfinity == [inf |-> -1, n |-> IntOf(0), d |-> <<1>>]

Neg(a) == [inf |-> 0 - a.inf, n |-> IntNeg(a.n), d |-> a.d]

\* n/d with the common factors Base of n and d dropped, and 0 as 0/1
RECURSIVE Reduced(_, _, _)
Reduced(neg, mag, d) ==
    IF mag = <<>> THEN [inf |-> 0, n |-> IntOfMag(FALSE, <<>>), d |-> <<1>>]
    ELSE IF mag[1] = 0 /\ d[1] = 0 THEN Reduced(neg, Tail(mag), Tail(d))
    ELSE [inf |-> 0, n |-> IntOfMag(neg, mag), d |-> d]

ReducedInt(n, d) == Reduced(n.neg, n.mag, d)

\* a + b over the denominator a.d * mb = b.d * ma
AddOver(a, b, mb, ma) ==
    ReducedInt(IntAdd(IntMulNat(a.n, mb), IntMulNat(b.n, ma)), NatMul(a.d, mb))

Add(a, b) ==
    IF a.inf # 0 THEN a
    ELSE IF b.inf # 0 THEN b
    ELSE AddOver(a, b, IF a.d = b.d THEN <<1>> ELSE b.d, IF a.d = b.d THEN <<1>> ELSE a.d)

Sub(a, b) == Add(a, Neg(b))

Mul(a, b) == Reduced(a.n.neg # b.n.neg, NatMul(a.n.mag, b.n.mag), NatMul(a.d, b.d))

\* a / b for finite a and finite b # 0
Div(a, b) == Reduced(a.n.neg # b.n.neg, NatMul(a.n.mag, b.d), NatMul(a.d, b.n.mag))

\* the sign of a - b
Cmp(a, b) ==
    IF a.inf # 0 \/ b.inf # 0
    THEN (IF a.inf < b.inf THEN -1 ELSE IF a.inf > b.inf THEN 1 ELSE 0)
    ELSE IntSign(IntAdd(IntMulNat(a.n, b.d), IntNeg(IntMulNat(b.n, a.d))))

Lt(a, b) == Cmp(a, b) < 0
Le(a, b) == Cmp(a, b) <= 0
Eq(a, b) == Cmp(a, b) = 0

MathMin(a, b) == IF Le(a, b) THEN a ELSE b
MathMax(a, b) == IF Le(b, a) THEN a ELSE b

(* --------------------- Math.cos / Math.sin / Math.tan ------------------ *)
\* angles are written in hundredths of a radian; values to six decimals
Micro(k) == Frac(k, 10 ^ 6)

MathCos(ang) ==
    CASE ang = 0 -> Num(1)
      [] ang = -14 -> Micro(990216)
      [] ang = -24 -> Micro(971338)
      [] ang = 50 -> Micro(877583)

MathSin(ang) ==
    CASE ang = 0 -> Num(0)
      [] ang = -14 -> Micro(-139543)
      [] ang = -24 -> Micro(-237703)
      [] ang = 50 -> Micro(479426)

MathTan(ang) ==
    CASE ang = 0 -> Num(0)
      [] ang = -10 -> Micro(-100335)
      [] ang = -20 -> Micro(-202710)
      [] ang = -25 -> Micro(-255342)
      [] ang = -50 -> Micro(-546302)

(* ------------------------------ records -------------------------------- *)
Point(px, py) == [x |-> px, y |-> py]
Rect(rx, ry, rw, rh) == [x |-> Num(rx), y |-> Num(ry), w |-> Num(rw), h |-> Num(rh)]

RECURSIVE Flatten(_)
Flatten(ss) == IF ss = <<>> THEN <<>> ELSE Head(ss) \o Flatten(Tail(ss))

(* --------------------------- auto-fit helpers -------------------------- *)
offsetRect(r, dx, dy) == [x |-> Add(r.x, dx), y |-> Add(r.y, dy), w |-> r.w, h |-> r.h]

\* pts of plaqueCorners: the unrotated corners for a skew
plaquePts(box, skew) ==
    << Point(Add(box.x, skew), box.y),
       Point(Add(Add(box.x, box.w), skew), box.y),
       Point(Sub(Add(box.x, box.w), skew), Add(box.y, box.h)),
       Point(Sub(box.x, skew), Add(box.y, box.h)) >>

\* the body of the map of plaqueCorners for dx = p.x - cx, dy = p.y - cy
rotatedPoint(dx, dy, cx, cy, c, s) ==
    Point(Sub(Add(cx, Mul(dx, c)), Mul(dy, s)), Add(Add(cy, Mul(dx, s)), Mul(dy, c)))

\* pts.map(...) of plaqueCorners
rotatedPts(pts, cx, cy, c, s) ==
    [i \in 1..Len(pts) |-> rotatedPoint(Sub(pts[i].x, cx), Sub(pts[i].y, cy), cx, cy, c, s)]

plaqueCornersNoSkew(box, ang, skewK) ==
    rotatedPts(plaquePts(box, Num(0)),
               Add(box.x, Div(box.w, Num(2))), Add(box.y, Div(box.h, Num(2))),
               MathCos(ang), MathSin(ang))

plaqueCornersCornerPivot(box, ang, skewK) ==
    rotatedPts(plaquePts(box, Mul(box.h, skewK)), box.x, box.y, MathCos(ang), MathSin(ang))

plaqueCorners(box, ang, skewK) ==
    rotatedPts(plaquePts(box, Mul(box.h, skewK)),
               Add(box.x, Div(box.w, Num(2))), Add(box.y, Div(box.h, Num(2))),
               MathCos(ang), MathSin(ang))

\* the loop of aabbFromPoints: acc holds minX, minY, maxX, maxY
RECURSIVE aabbLoop(_, _)
aabbLoop(points, acc) ==
    IF points = <<>> THEN acc
    ELSE aabbLoop(Tail(points),
                  [minX |-> MathMin(acc.minX, Head(points).x),
                   minY |-> MathMin(acc.minY, Head(points).y),
                   maxX |-> MathMax(acc.maxX, Head(points).x),
                   maxY |-> MathMax(acc.maxY, Head(points).y)])

\* the bounds r with w = maxX - minX and h = maxY - minY
withSize(r) ==
    [minX |-> r.minX, minY |-> r.minY, maxX |-> r.maxX, maxY |-> r.maxY,
     w |-> Sub(r.maxX, r.minX), h |-> Sub(r.maxY, r.minY)]

aabbFromPointsFirstOnly(points) ==
    withSize(aabbLoop(SubSeq(points, 1, 1),
                      [minX |-> Infinity, minY |-> Infinity,
                       maxX |-> NegInfinity, maxY |-> NegInfinity]))

aabbFromPoints(points) ==
    withSize(aabbLoop(points,
                      [minX |-> Infinity, minY |-> Infinity,
                       maxX |-> NegInfinity, maxY |-> NegInfinity]))

(* ------------------------ the auto-fit of draw() ----------------------- *)
\* a composition: the plaques, the shared angle and skew, the shadow offset, the pads
Composition(plaques, ang, skewK, shadowOff, motifPad) ==
    [plaques |-> plaques, ang |-> ang, skewK |-> skewK,
     shadowOff |-> shadowOff, motifPad |-> motifPad]

Pad(l, r, t, b) == [left |-> Num(l), right |-> Num(r), top |-> Num(t), bottom |-> Num(b)]

\* the corners of every box of boxes, in order
cornersOf(boxes, ang, skewK) ==
    Flatten([i \in 1..Len(boxes) |-> plaqueCorners(boxes[i], ang, skewK)])

\* pts: the corners of every plaque, then of every plaque's shadow
fitPoints(comp) ==
    cornersOf(comp.plaques
              \o [i \in 1..Len(comp.plaques) |->
                    offsetRect(comp.plaques[i], comp.shadowOff.x, comp.shadowOff.y)],
              comp.ang, comp.skewK)

\* bb.minX -= left; bb.maxX += right; bb.minY -= top; bb.maxY += bottom
inflated(bb, pad) ==
    [minX |-> Sub(bb.minX, pad.left), minY |-> Sub(bb.minY, pad.top),
     maxX |-> Add(bb.maxX, pad.right), maxY |-> Add(bb.maxY, pad.bottom)]

\* bb after the inflation by motifPad, with w and h recomputed
inflatedBB(comp) == withSize(inflated(aabbFromPoints(fitPoints(comp)), comp.motifPad))

padPx == 18

\* ox and oy of draw() for the scale s
centered(bb, width, height, s) ==
    [s |-> s,
     ox |-> Sub(Div(Sub(Num(width), Mul(bb.w, s)), Num(2)), Mul(bb.minX, s)),
     oy |-> Sub(Div(Sub(Num(height), Mul(bb.h, s)), Num(2)), Mul(bb.minY, s))]

fitTransformNoCenter(bb, width, height) ==
    LET s == MathMin(Div(Num(width - 2 * padPx), bb.w), Div(Num(height - 2 * padPx), bb.h))
    IN  [s |-> s, ox |-> Neg(Mul(bb.minX, s)), oy |-> Neg(Mul(bb.minY, s))]

fitTransformMax(bb, width, height) ==
    centered(bb, width, height,
             MathMax(Div(Num(width - 2 * padPx), bb.w), Div(Num(height - 2 * padPx), bb.h)))

\* s, ox, oy of draw()
fitTransform(bb, width, height) ==
    centered(bb, width, height,
             MathMin(Div(Num(width - 2 * padPx), bb.w), Div(Num(height - 2 * padPx), bb.h)))

\* translate(ox, oy); scale(s) applied to a design-space point
fitMap(fit, p) == Point(Add(Mul(p.x, fit.s), fit.ox), Add(Mul(p.y, fit.s), fit.oy))

(* ------------------------- the design of draw() ------------------------ *)
slant == -14
skewK == Frac(45, 100)
steep == Rect(120, 120, 900, 220)
fast == Rect(260, 330, 920, 220)
shadowOff == Point(Num(16), Num(16))
motifPad == Pad(220, 120, 170, 140)

design == Composition(<<steep, fast>>, slant, skewK, shadowOff, motifPad)

designBB == inflatedBB(design)

color(r, g, b, a) == <<r, g, b, a>>
gray(v) == <<v, v, v, 255>>

theme ==
    [ink |-> color(12, 16, 20, 255), white |-> gray(255),
     cool |-> color(0, 175, 170, 255), warm |-> color(255, 85, 40, 255),
     warm2 |-> color(255, 180, 0, 255), shadow |-> color(0, 0, 0, 35),
     stripeCool |-> color(0, 175, 170, 45), stripeWarm |-> color(255, 130, 80, 35)]

(* ------------------------ p5 drawing commands -------------------------- *)
\* A function of the sketch is the sequence of p5 calls it makes.  Stroke
\* weight, cap, join and the text settings are not part of the model; the
\* x position of tracked text depends on the browser's glyph widths and is
\* not recorded.
push == [op |-> "push"]
pop == [op |-> "pop"]
translate(tx, ty) == [op |-> "translate", x |-> tx, y |-> ty]
rotate(ang) == [op |-> "rotate", ang |-> ang]
scale(s) == [op |-> "scale", s |-> s]
shearX(ang) == [op |-> "shearX", ang |-> ang]
fill(c) == [op |-> "fill", c |-> c]
\* the fill or stroke after noFill() or noStroke()
none == <<>>
noFill == [op |-> "fill", c |-> none]
stroke(c) == [op |-> "stroke", c |-> c]
noStroke == [op |-> "stroke", c |-> none]
shape(pts) == [op |-> "draw", kind |-> "shape", pts |-> pts]
line(x1, y1, x2, y2) == [op |-> "draw", kind |-> "line", pts |-> <<Point(x1, y1), Point(x2, y2)>>]
text(str, tx, ty) == [op |-> "draw", kind |-> "text", pts |-> <<Point(tx, ty)>>, str |-> str]
trackedChar(ch) == [op |-> "draw", kind |-> "text", pts |-> <<>>, str |-> ch]

\* the body of a function, between the markers of its call and its return
Called(fn, arg, body) ==
    <<[op |-> "call", fn |-> fn, arg |-> arg]>> \o body \o <<[op |-> "return"]>>

Pct(v, k) == Mul(v, Frac(k, 100))
Half(v) == Div(v, Num(2))

lerp(start, stop, amt) == Add(Mul(amt, Sub(stop, start)), start)

(* --------------------------- geometry + text --------------------------- *)
rotateAroundCenterNoReturn(w, h, ang) ==
    Called("rotateAroundCenter", <<>>, <<translate(Half(w), Half(h)), rotate(ang)>>)

\* the calls of rotateAroundCenter for hw = w / 2 and hh = h / 2
aroundPivot(hw, hh, ang) == <<translate(hw, hh), rotate(ang), translate(Neg(hw), Neg(hh))>>

rotateAroundCenter(w, h, ang) ==
    Called("rotateAroundCenter", <<>>, aroundPivot(Half(w), Half(h), ang))

parallelogramPts(px, py, w, h, skew) ==
    << Point(Add(px, skew), py),
       Point(Add(Add(px, w), skew), py),
       Point(Sub(Add(px, w), skew), Add(py, h)),
       Point(Sub(px, skew), Add(py, h)) >>

drawParallelogram(px, py, w, h, skew) ==
    Called("drawParallelogram", <<>>, <<shape(parallelogramPts(px, py, w, h, skew))>>)

drawParallelogramOutline(px, py, w, h, skew) ==
    Called("drawParallelogramOutline", <<>>, <<shape(parallelogramPts(px, py, w, h, skew))>>)

drawTrackedText(str, cx, cy, tracking) ==
    Called("drawTrackedText", str,
           Flatten([i \in 1..Len(str) |-> <<shearX(-10), trackedChar(str[i])>>]))

(* ------------------------------ drawing -------------------------------- *)
\* a stripe of drawPlaque for sy = box.h * st.y and sh = box.h * st.h
stripeBand(box, c, sy, sh, skew) ==
    <<fill(c)>> \o drawParallelogram(Num(0), Sub(sy, Half(sh)), box.w, sh, skew)

\* the calls of drawPlaque for skew = box.h * skewK
plaqueCalls(box, ang, opt, skew) ==
    <<push, translate(Add(box.x, opt.shadowOff.x), Add(box.y, opt.shadowOff.y))>>
    \o rotateAroundCenter(box.w, box.h, ang)
    \o <<noStroke, fill(theme.shadow)>>
    \o drawParallelogram(Num(0), Num(0), box.w, box.h, skew)
    \o <<pop>>
    \o <<push, translate(box.x, box.y)>>
    \o rotateAroundCenter(box.w, box.h, ang)
    \o <<noStroke, fill(theme.ink)>>
    \o drawParallelogram(Num(0), Num(0), box.w, box.h, skew)
    \o Flatten([i \in 1..Len(opt.stripes) |->
                  stripeBand(box, opt.stripes[i].c, Mul(box.h, opt.stripes[i].y),
                             Mul(box.h, opt.stripes[i].h), skew)])
    \o <<noFill, stroke(opt.borderColor)>>
    \o drawParallelogramOutline(Num(0), Num(0), box.w, box.h, skew)
    \o <<pop>>

drawPlaque(box, ang, opt) ==
    Called("drawPlaque", box, plaqueCalls(box, ang, opt, Mul(box.h, opt.skewK)))

\* the underline of drawWordInPlaque for uy and huw = uw / 2
underlineCalls(cx, uy, huw) ==
    <<stroke(theme.white), line(Sub(cx, huw), uy, Add(cx, huw), uy)>>

\* the calls of drawWordInPlaque for cx = box.w * 0.52 and cy = box.h * 0.58
wordCalls(word, box, ang, opt, cx, cy) ==
    <<push, translate(box.x, box.y)>>
    \o rotateAroundCenter(box.w, box.h, ang)
    \o <<shearX(opt.textShearX)>>
    \o <<noStroke, fill(color(0, 0, 0, 90))>>
    \o drawTrackedText(word, Add(cx, Num(6)), Add(cy, Num(6)), opt.tracking)
    \o <<fill(theme.white)>>
    \o drawTrackedText(word, cx, cy, opt.tracking)
    \o (IF opt.underline
        THEN underlineCalls(cx, Add(cy, Pct(opt.size, 44)), Half(Pct(box.w, 30)))
        ELSE <<>>)
    \o <<pop>>

drawWordInPlaque(word, box, ang, opt) ==
    Called("drawWordInPlaque", box,
           wordCalls(word, box, ang, opt, Pct(box.w, 52), Pct(box.h, 58)))

\* midX, midY, w, h of drawAmpBadgeBetween
badgeRect(steepBox, fastBox) ==
    [x |-> lerp(Add(steepBox.x, Pct(steepBox.w, 26)),
                Add(fastBox.x, Pct(fastBox.w, 36)), Frac(1, 2)),
     y |-> lerp(Add(steepBox.y, Pct(steepBox.h, 29)),
                Add(fastBox.y, Pct(fastBox.h, 16)), Frac(1, 2)),
     w |-> Num(170), h |-> Num(140)]

\* the calls of drawAmpBadgeBetween for the badge b and skew = h * skewK
badgeCalls(b, ang, opt, skew) ==
    <<push, translate(Add(b.x, Pct(opt.shadowOff.x, 70)),
                      Add(b.y, Pct(opt.shadowOff.y, 70)))>>
    \o rotateAroundCenter(b.w, b.h, ang)
    \o <<noStroke, fill(theme.shadow)>>
    \o drawParallelogram(Num(0), Num(0), b.w, b.h, skew)
    \o <<pop>>
    \o <<push, translate(b.x, b.y)>>
    \o rotateAroundCenter(b.w, b.h, ang)
    \o <<noStroke, fill(theme.ink)>>
    \o drawParallelogram(Num(0), Num(0), b.w, b.h, skew)
    \o <<noFill, stroke(theme.white)>>
    \o drawParallelogramOutline(Num(0), Num(0), b.w, b.h, skew)
    \o <<noStroke, fill(theme.white), shearX(-50),
         text(<<"&">>, Pct(b.w, 52), Pct(b.h, 56))>>
    \o <<fill(theme.white), noStroke,
         shape(<< Point(Pct(b.w, 62), Pct(b.h, 16)),
                  Point(Pct(b.w, 78), Pct(b.h, 25)),
                  Point(Pct(b.w, 64), Pct(b.h, 40)) >>)>>
    \o <<pop>>

\* the badge of drawAmpBadgeBetween with its calls
badgeAt(b, ang, opt) == Called("drawAmpBadgeBetween", b, badgeCalls(b, ang, opt, Mul(b.h, opt.skewK)))

drawAmpBadgeBetween(steepBox, fastBox, ang, opt) ==
    badgeAt(badgeRect(steepBox, fastBox), ang, opt)

(* ------------------------------- motifs -------------------------------- *)
\* the three shapes of drawMountainHint for mw = 260 and mh = 170
mountainShapes(mw, mh) ==
    <<noStroke, fill(theme.cool),
      shape(<< Point(Num(0), mh), Point(Pct(mw, 52), Num(0)), Point(mw, mh) >>)>>
    \o <<fill(gray(255)),
         shape(<< Point(Pct(mw, 18), mh), Point(Pct(mw, 52), Pct(mh, 25)),
                  Point(Pct(mw, 84), mh) >>)>>
    \o <<fill(theme.white),
         shape(<< Point(Pct(mw, 44), Pct(mh, 33)), Point(Pct(mw, 52), Num(0)),
                  Point(Pct(mw, 60), Pct(mh, 33)), Point(Pct(mw, 52), Pct(mh, 22)) >>)>>

drawMountainHintNoPop(steepBox, ang) ==
    Called("drawMountainHint", steepBox,
           <<push, translate(Add(steepBox.x, Pct(steepBox.w, 28)), Sub(steepBox.y, Num(55))),
             rotate(ang)>>
           \o mountainShapes(Num(260), Num(170)))

drawMountainHint(steepBox, ang) ==
    Called("drawMountainHint", steepBox,
           <<push, translate(Add(steepBox.x, Pct(steepBox.w, 28)), Sub(steepBox.y, Num(55))),
             rotate(ang)>>
           \o mountainShapes(Num(260), Num(170))
           \o <<pop>>)

speedLines ==
    << [y |-> Num(-70), w |-> Num(650), c |-> theme.warm],
       [y |-> Num(-20), w |-> Num(780), c |-> theme.warm2],
       [y |-> Num(30), w |-> Num(700), c |-> theme.warm] >>

\* the body of the loop of drawSpeedLines
speedLine(ln) ==
    << stroke(ln.c), line(Num(0), ln.y, ln.w, ln.y),
       stroke(gray(255)), line(Pct(ln.w, 46), ln.y, Pct(ln.w, 64), ln.y) >>

\* the calls of drawSpeedLines for the lines from baseX, baseY
speedLineCalls(baseX, baseY, ang, lines) ==
    <<push, translate(baseX, baseY), rotate(ang)>>
    \o Flatten([i \in 1..Len(lines) |-> speedLine(lines[i])])
    \o <<pop>>

drawSpeedLinesFarLeft(fastBox, ang) ==
    Called("drawSpeedLines", fastBox,
           speedLineCalls(Sub(fastBox.x, Num(520)), Add(fastBox.y, Pct(fastBox.h, 58)),
                          ang, speedLines))

drawSpeedLines(fastBox, ang) ==
    Called("drawSpeedLines", fastBox,
           speedLineCalls(Sub(fastBox.x, Num(220)), Add(fastBox.y, Pct(fastBox.h, 58)),
                          ang, speedLines))

(* ------------------------- the calls of draw() ------------------------- *)
plaqueOpt(border, stripeColor, stripeY) ==
    [borderColor |-> border, shadowOff |-> shadowOff, skewK |-> skewK,
     stripes |-> <<[c |-> stripeColor, y |-> Frac(stripeY, 100), h |-> Frac(18, 100)]>>]

wordOpt(tracking, underline, shear) ==
    [size |-> Num(170), tracking |-> Num(tracking), underline |-> underline,
     textShearX |-> shear]

STEEP == <<"S", "T", "E", "E", "P">>
FAST == <<"F", "A", "S", "T">>

drawCallsPlaquesFirst ==
    drawPlaque(steep, slant, plaqueOpt(theme.cool, theme.stripeCool, 52))
    \o drawPlaque(fast, slant, plaqueOpt(theme.warm, theme.stripeWarm, 55))
    \o drawMountainHint(steep, slant)
    \o drawSpeedLines(fast, slant)
    \o drawAmpBadgeBetween(steep, fast, slant, [shadowOff |-> shadowOff, skewK |-> skewK])
    \o drawWordInPlaque(STEEP, steep, slant, wordOpt(8, TRUE, -25))
    \o drawWordInPlaque(FAST, fast, slant, wordOpt(10, FALSE, -20))

\* the calls between push/translate/scale and the final pop
drawCalls ==
    drawMountainHint(steep, slant)
    \o drawSpeedLines(fast, slant)
    \o drawPlaque(steep, slant, plaqueOpt(theme.cool, theme.stripeCool, 52))
    \o drawPlaque(fast, slant, plaqueOpt(theme.warm, theme.stripeWarm, 55))
    \o drawAmpBadgeBetween(steep, fast, slant, [shadowOff |-> shadowOff, skewK |-> skewK])
    \o drawWordInPlaque(STEEP, steep, slant, wordOpt(8, TRUE, -25))
    \o drawWordInPlaque(FAST, fast, slant, wordOpt(10, FALSE, -20))

(* ---------------------- the p5 graphics state -------------------------- *)
\* ctm is the sequence of transforms in effect, outermost first; push saves
\* it with the fill and stroke, pop restores them
Graphics0 ==
    [ctm |-> <<>>, fill |-> gray(255), stroke |-> gray(0), stack |-> <<>>,
     calls |-> <<>>, log |-> <<>>, underflow |-> FALSE, trace |-> <<>>]

Step(c, g) ==
    CASE c.op = "push" ->
            [g EXCEPT !.stack = Append(@, [ctm |-> g.ctm, fill |-> g.fill, stroke |-> g.stroke])]
      [] c.op = "pop" ->
            IF g.stack = <<>> THEN [g EXCEPT !.underflow = TRUE]
            ELSE [g EXCEPT !.ctm = g.stack[Len(g.stack)].ctm,
                           !.fill = g.stack[Len(g.stack)].fill,
                           !.stroke = g.stack[Len(g.stack)].stroke,
                           !.stack = SubSeq(@, 1, Len(@) - 1)]
      [] c.op \in {"translate", "rotate", "scale", "shearX"} ->
            [g EXCEPT !.ctm = Append(@, c)]
      [] c.op = "fill" -> [g EXCEPT !.fill = c.c]
      [] c.op = "stroke" -> [g EXCEPT !.stroke = c.c]
      [] c.op = "call" -> [g EXCEPT !.calls = Append(@, [fn |-> c.fn, arg |-> c.arg])]
      [] c.op = "return" -> [g EXCEPT !.calls = SubSeq(@, 1, Len(@) - 1)]
      [] c.op = "draw" ->
            [g EXCEPT !.log = Append(@, [kind |-> c.kind, pts |-> c.pts, ctm |-> g.ctm,
                                         fill |-> g.fill, stroke |-> g.stroke,
                                         calls |-> g.calls, depth |-> Len(g.stack)])]

\* the record of a call c in the trace of the pass: the stack depth, the
\* transform and the nesting of the sketch's functions that c leaves
Observe(c, g) ==
    [g EXCEPT !.trace = Append(@, [cmd |-> c, depth |-> Len(g.stack), ctm |-> g.ctm,
                                   nest |-> Len(g.calls)])]

\* the commands lo..hi of cmds, in order, from graphics state g
RECURSIVE ExecRange(_, _, _, _)
ExecRange(cmds, lo, hi, g) ==
    IF lo > hi THEN g
    ELSE IF lo = hi THEN Observe(cmds[lo], Step(cmds[lo], g))
    ELSE LET mid == (lo + hi) \div 2
             first == ExecRange(cmds, lo, mid, g)
         IN  IF first.underflow THEN ExecRange(cmds, mid + 1, hi, first)
             ELSE ExecRange(cmds, mid + 1, hi, first)

Exec(cmds, g) == ExecRange(cmds, 1, Len(cmds), g)

\* a transform of the ctm applied to a point
applyTransform(t, p) ==
    CASE t.op = "translate" -> Point(Add(p.x, t.x), Add(p.y, t.y))
      [] t.op = "scale" -> Point(Mul(p.x, t.s), Mul(p.y, t.s))
      [] t.op = "rotate" ->
            Point(Sub(Mul(p.x, MathCos(t.ang)), Mul(p.y, MathSin(t.ang))),
                  Add(Mul(p.x, MathSin(t.ang)), Mul(p.y, MathCos(t.ang))))
      [] t.op = "shearX" -> Point(Add(p.x, Mul(p.y, MathTan(t.ang))), p.y)

\* where the ctm puts a point: the innermost (last applied) transform acts first
RECURSIVE applyCtm(_, _)
applyCtm(ctm, p) ==
    IF ctm = <<>> THEN p
    ELSE applyCtm(SubSeq(ctm, 1, Len(ctm) - 1), applyTransform(ctm[Len(ctm)], p))

(* ------------------------------- draw() -------------------------------- *)
\* what a pass leaves: the canvas size and fit it used, and the graphics state g
pass(w, h, f, g) ==
    [width |-> w, height |-> h, fit |-> f, log |-> g.log,
     depth |-> Len(g.stack), ctm |-> g.ctm, underflow |-> g.underflow,
     trace |-> g.trace]

\* the calls of draw() after the fit f is computed
drawFitted(w, h, f) ==
    pass(w, h, f,
         Exec(<<push, translate(f.ox, f.oy), scale(f.s)>> \o drawCalls \o <<pop>>, Graphics0))

\* one render pass on a width x height canvas: background(255) clears, the
\* fit is computed, and the calls run inside push / translate / scale ... pop
draw(w, h) == drawFitted(w, h, fitTransform(designBB, w, h))

(* ----------------------------- the sketch ----------------------------- *)
\* phase: "load" before setup() has run, "idle" between events
\* windowWidth, windowHeight: the browser window; width, height: the canvas
\* passes: the render passes run by the last event, in order
\* call: the last call of the geometry harness (SpecGeom)
VARIABLES phase, windowWidth, windowHeight, width, height, passes, call
vars == <<phase, windowWidth, windowHeight, width, height, passes, call>>

WindowWidths == {20, 36, 37, 400, 800, 1600}
WindowHeights == {20, 36, 37, 300, 400, 800, 1000}

Widths == {20, 36, 37, 100, 500, 1000, 2000}
Heights == {20, 36, 37, 100, 500, 1000}
Skews == {Num(0), Frac(45, 100), Frac(-1, 2), Num(2)}
Angles == {0, -14, -24, 50}
Rects == {steep, Rect(0, 0, 900, 220), Rect(-7, 3, 5, 2), Rect(1, 1, 1, 3)}
Coords == {-2, 0, 3}
MaxPts == 3
Compositions ==
    { design,
      Composition(<<Rect(0, 0, 900, 220)>>, 0, Frac(45, 100), Point(Num(0), Num(0)),
                  Pad(0, 0, 0, 0)),
      Composition(<<Rect(0, 0, 4, 2)>>, 50, Frac(-1, 2), Point(Num(1), Num(-1)),
                  Pad(1, 0, 2, 0)),
      Composition(<<Rect(-7, 3, 5, 2), Rect(1, 1, 1, 3)>>, -24, Num(2),
                  Point(Num(-3), Num(0)), Pad(0, 0, 0, 3)) }

RECURSIVE SeqsUpTo(_, _)
SeqsUpTo(S, n) ==
    IF n = 0 THEN {<<>>}
    ELSE LET shorter == SeqsUpTo(S, n - 1)
         IN  shorter \cup {Append(q, e) : q \in shorter, e \in S}

Init ==
    /\ phase = "load"
    /\ windowWidth \in WindowWidths
    /\ windowHeight \in WindowHeights
    /\ width = 100
    /\ height = 100
    /\ passes = <<>>
    /\ call = [fn |-> "none"]

\* setup(): createCanvas(windowWidth, windowHeight) and noLoop(); p5 then runs
\* draw() once for the first frame
Load ==
    /\ phase = "load"
    /\ width' = windowWidth
    /\ height' = windowHeight
    /\ passes' = <<draw(windowWidth, windowHeight)>>
    /\ phase' = "idle"
    /\ UNCHANGED <<windowWidth, windowHeight, call>>

\* resizeCanvas(w, h) sets width and height and, called without noRedraw,
\* runs redraw() itself
resizeCanvas(w, h) == <<draw(w, h)>>

\* redraw() runs draw() once, synchronously
redraw(w, h) == <<draw(w, h)>>

\* windowResized(): resizeCanvas(windowWidth, windowHeight); redraw()
windowResized(w, h) == resizeCanvas(w, h) \o redraw(w, h)

\* the browser window takes a new size and p5 calls windowResized()
WindowResized ==
    /\ phase = "idle"
    /\ \E w \in WindowWidths, h \in WindowHeights :
        /\ windowWidth' = w
        /\ windowHeight' = h
        /\ width' = w
        /\ height' = h
        /\ passes' = windowResized(w, h)
    /\ UNCHANGED <<phase, call>>

Next == Load \/ WindowResized

Spec == Init /\ [][Next]_vars

geomUnchanged == UNCHANGED <<phase, windowWidth, windowHeight, width, height, passes>>

CallPlaqueCorners ==
    /\ call.fn = "none"
    /\ \E box \in Rects, ang \in Angles, k \in Skews :
        call' = [fn |-> "plaqueCorners", box |-> box, ang |-> ang, skewK |-> k,
                 ret |-> plaqueCorners(box, ang, k)]
    /\ geomUnchanged

CallAabbFromPoints ==
    /\ call.fn = "none"
    /\ \E points \in SeqsUpTo({Point(Num(a), Num(b)) : a \in Coords, b \in Coords}, MaxPts)
                    \ {<<>>} :
        call' = [fn |-> "aabbFromPoints", points |-> points, ret |-> aabbFromPoints(points)]
    /\ geomUnchanged

\* the record of a call of the auto-fit for its bounding box bb
autoFitCall(comp, w, h, bb) ==
    [fn |-> "autoFit", comp |-> comp, width |-> w, height |-> h,
     bb |-> bb, ret |-> fitTransform(bb, w, h)]

CallAutoFit ==
    /\ call.fn = "none"
    /\ \E comp \in Compositions, w \in Widths, h \in Heights :
        call' = autoFitCall(comp, w, h, inflatedBB(comp))
    /\ geomUnchanged

NextGeom == CallPlaqueCorners \/ CallAabbFromPoints \/ CallAutoFit

\* the harness of the pure functions: the sketch stays unloaded in a fixed window
InitGeom ==
    /\ phase = "load"
    /\ windowWidth = 100
    /\ windowHeight = 100
    /\ width = 100
    /\ height = 100
    /\ passes = <<>>
    /\ call = [fn |-> "none"]

SpecGeom == InitGeom /\ [][NextGeom]_vars

(* ------------------------------ properties ----------------------------- *)
bbCorners(bb) ==
    << Point(bb.minX, bb.minY), Point(bb.maxX, bb.minY),
       Point(bb.maxX, bb.maxY), Point(bb.minX, bb.maxY) >>

\* p is in [padPx, w - padPx] x [padPx, h - padPx]
InMargins(p, w, h) ==
    /\ Le(Num(padPx), p.x) /\ Le(p.x, Num(w - padPx))
    /\ Le(Num(padPx), p.y) /\ Le(p.y, Num(h - padPx))

InBox(p, bb) ==
    /\ Le(bb.minX, p.x) /\ Le(p.x, bb.maxX)
    /\ Le(bb.minY, p.y) /\ Le(p.y, bb.maxY)

OnMargin(fit, bb, w, h) ==
    \/ Eq(fitMap(fit, Point(bb.minX, bb.minY)).x, Num(padPx))
    \/ Eq(fitMap(fit, Point(bb.maxX, bb.maxY)).x, Num(w - padPx))
    \/ Eq(fitMap(fit, Point(bb.minX, bb.minY)).y, Num(padPx))
    \/ Eq(fitMap(fit, Point(bb.maxX, bb.maxY)).y, Num(h - padPx))

HeightBinds(bb, w, h) ==
    Le(Div(Num(h - 2 * padPx), bb.h), Div(Num(w - 2 * padPx), bb.w))

\* C1: for every composition and every viewport with W > 2*padPx and
\* H > 2*padPx, the fit of draw() maps the four corners of the inflated
\* bounding box into [padPx, W-padPx] x [padPx, H-padPx], and an edge of the
\* mapped box lies exactly on a margin boundary.
FitKeepsBoxInMargins ==
    (call.fn = "autoFit" /\ call.width > 2 * padPx /\ call.height > 2 * padPx) =>
        /\ \A i \in 1..4 :
              InMargins(fitMap(call.ret, bbCorners(call.bb)[i]), call.width, call.height)
        /\ OnMargin(call.ret, call.bb, call.width, call.height)

FitKeepsBoxInMarginsWitness ==
    /\ call.fn = "autoFit"
    /\ call.comp = design
    /\ call.width > 2 * padPx
    /\ call.height > 2 * padPx
    /\ HeightBinds(call.bb, call.width, call.height)
    /\ Lt(Num(padPx), fitMap(call.ret, Point(call.bb.minX, call.bb.minY)).x)

scenario ==
    Composition(<<Rect(0, 0, 900, 220)>>, 0, Frac(45, 100), Point(Num(0), Num(0)),
                Pad(0, 0, 0, 0))

IsScenarioCall ==
    call.fn = "autoFit" /\ call.comp = scenario /\ call.width = 1000 /\ call.height = 1000

\* C2 as stated: for the single plaque {0,0,900,220}, angle 0, skewK 0.45, no
\* shadow offset, no pads, on a 1000 x 1000 viewport the bounding box is
\* {0, 0, 900, 220} and the scale is 964/900.
ScenarioBoxIsTheRect ==
    IsScenarioCall =>
        /\ Eq(call.bb.minX, Num(0)) /\ Eq(call.bb.minY, Num(0))
        /\ Eq(call.bb.maxX, Num(900)) /\ Eq(call.bb.maxY, Num(220))
        /\ Eq(call.ret.s, Frac(964, 900))

\* C2 amended: in that scenario the skew h*skewK = 99 widens the box to
\* {-99, 0, 999, 220} and the scale is min(964/1098, 964/220) = 964/1098.
ScenarioBoxIsSkewed ==
    IsScenarioCall =>
        /\ Eq(call.bb.minX, Num(-99)) /\ Eq(call.bb.minY, Num(0))
        /\ Eq(call.bb.maxX, Num(999)) /\ Eq(call.bb.maxY, Num(220))
        /\ Eq(call.bb.w, Num(1098)) /\ Eq(call.bb.h, Num(220))
        /\ Eq(call.ret.s, Frac(964, 1098))
        /\ Eq(call.ret.ox, Sub(Div(Sub(Num(1000), Num(964)), Num(2)),
                               Mul(Num(-99), Frac(964, 1098))))

ScenarioWitness == IsScenarioCall /\ Lt(call.ret.s, Num(1))

Mean4(a, b, c, d) == Div(Add(Add(a, b), Add(c, d)), Num(4))

\* C4: plaqueCorners returns exactly four points, and their centroid is the
\* center (box.x + box.w/2, box.y + box.h/2) of the Rect.
CentroidIsRectCenter ==
    call.fn = "plaqueCorners" =>
        /\ Len(call.ret) = 4
        /\ Eq(Mean4(call.ret[1].x, call.ret[2].x, call.ret[3].x, call.ret[4].x),
              Add(call.box.x, Div(call.box.w, Num(2))))
        /\ Eq(Mean4(call.ret[1].y, call.ret[2].y, call.ret[3].y, call.ret[4].y),
              Add(call.box.y, Div(call.box.h, Num(2))))

CentroidWitness ==
    /\ call.fn = "plaqueCorners"
    /\ call.ang = slant
    /\ call.skewK = skewK
    /\ call.box = steep
    /\ ~Eq(call.ret[1].y, call.ret[2].y)

\* C5: for a non-empty point sequence, aabbFromPoints returns bounds with
\* minX <= p.x <= maxX and minY <= p.y <= maxY for every point p, each of the
\* four bounds is the coordinate of some point, and w = maxX - minX and
\* h = maxY - minY.
AabbIsTight ==
    (call.fn = "aabbFromPoints" /\ call.points # <<>>) =>
        LET ps == call.points
            r == call.ret
            I == 1..Len(ps)
        IN  /\ \A i \in I : InBox(ps[i], r)
            /\ \E i \in I : Eq(ps[i].x, r.minX)
            /\ \E i \in I : Eq(ps[i].x, r.maxX)
            /\ \E i \in I : Eq(ps[i].y, r.minY)
            /\ \E i \in I : Eq(ps[i].y, r.maxY)
            /\ Eq(r.w, Sub(r.maxX, r.minX))
            /\ Eq(r.h, Sub(r.maxY, r.minY))

AabbWitness ==
    /\ call.fn = "aabbFromPoints"
    /\ Len(call.points) = 3
    /\ Lt(call.points[2].x, call.points[1].x)
    /\ Lt(call.points[1].x, call.points[3].x)
    /\ Lt(Num(0), call.ret.h)

\* C7: when the height ratio is the smaller one at viewport (W, H), the fit at
\* viewport (2W, H) has the same scale and the same offsetY, and a strictly
\* larger offsetX.
DoubleWidthKeepsScale ==
    (call.fn = "autoFit" /\ HeightBinds(call.bb, call.width, call.height)) =>
        LET wide == fitTransform(call.bb, 2 * call.width, call.height)
        IN  /\ Eq(wide.s, call.ret.s)
            /\ Eq(wide.oy, call.ret.oy)
            /\ Lt(call.ret.ox, wide.ox)

DoubleWidthWitness ==
    /\ call.fn = "autoFit"
    /\ call.comp = design
    /\ call.width = 1000
    /\ call.height = 100
    /\ HeightBinds(call.bb, call.width, call.height)
    /\ Lt(Num(0), call.ret.s)

(* ----------------------- properties of the passes ---------------------- *)
Passes == 1..Len(passes)

\* the first function of the sketch on the call stack of a draw operation
Caller(op) == op.calls[1]

Ops(log, Keep(_)) == {i \in 1..Len(log) : Keep(log[i])}

Before(A, B) == \A i \in A, j \in B : i < j

\* the ctm of a draw operation without the fit (translate, scale) of draw()
designCtm(op) == SubSeq(op.ctm, 3, Len(op.ctm))
designPts(op) == [i \in 1..Len(op.pts) |-> applyCtm(designCtm(op), op.pts[i])]
canvasPts(op) == [i \in 1..Len(op.pts) |-> applyCtm(op.ctm, op.pts[i])]

\* C3 as stated: for every viewport with positive width and height the scale
\* of the pass is finite and strictly positive and the inflated bounding box
\* stays within [padPx, dimension - padPx] on both axes.
ScalePositiveOnAnyViewport ==
    \A k \in Passes :
        LET d == passes[k]
        IN  (d.width > 0 /\ d.height > 0) =>
                /\ d.fit.s.inf = 0
                /\ Lt(Num(0), d.fit.s)
                /\ \A i \in 1..4 :
                      InMargins(fitMap(d.fit, bbCorners(designBB)[i]), d.width, d.height)

IsMotif(op) == Caller(op).fn \in {"drawMountainHint", "drawSpeedLines"}
IsPlaque(op) == Caller(op).fn = "drawPlaque"
IsBadge(op) == Caller(op).fn = "drawAmpBadgeBetween"
IsWord(op) == Caller(op).fn = "drawWordInPlaque"

BackToFront(log) ==
    LET motifs == Ops(log, IsMotif)
        plaques == Ops(log, IsPlaque)
        badge == Ops(log, IsBadge)
        words == Ops(log, IsWord)
        of(box, S) == {i \in S : Caller(log[i]).arg = box}
        filled(S, c) == {i \in S : log[i].fill = c}
        stripes(S) == {i \in S : log[i].fill \in {theme.stripeCool, theme.stripeWarm}}
        kind(S, k) == {i \in S : log[i].kind = k}
    IN  /\ {Caller(log[i]).fn : i \in motifs} = {"drawMountainHint", "drawSpeedLines"}
        /\ Before(motifs, plaques)
        /\ \A box \in {steep, fast} :
              LET P == of(box, plaques)
              IN  /\ filled(P, theme.shadow) # {} /\ filled(P, theme.ink) # {}
                  /\ stripes(P) # {} /\ filled(P, none) # {}
                  /\ Before(filled(P, theme.shadow), filled(P, theme.ink))
                  /\ Before(filled(P, theme.ink), stripes(P))
                  /\ Before(stripes(P), filled(P, none))
        /\ badge # {}
        /\ Before(plaques, badge)
        /\ \A box \in {steep, fast} :
              LET W == of(box, words)
                  shadow == filled(kind(W, "text"), color(0, 0, 0, 90))
                  main == filled(kind(W, "text"), theme.white)
              IN  /\ shadow # {} /\ main # {}
                  /\ Before(shadow, main)
                  /\ Before(main, kind(W, "line"))
        /\ kind(of(steep, words), "line") # {}
        /\ Before(plaques, words)
        /\ Before(badge, words)

\* C6: in every render pass the motifs are drawn before any plaque; for each
\* plaque its shadow before its fill, its fill before its stripes, its stripes
\* before its outline; the badge after both plaques; for each word the text
\* shadow before the text fill before the underline; all text after the
\* plaques and the badge.
DrawnBackToFront == \A k \in Passes : BackToFront(passes[k].log)

DrawnBackToFrontWitness ==
    /\ phase = "idle"
    /\ Len(passes) = 2
    /\ \E i \in 1..Len(passes[2].log) :
          /\ passes[2].log[i].kind = "line"
          /\ IsWord(passes[2].log[i])

\* C8 as stated: after the initial load and after every resize notification
\* exactly one render pass has run, with the fit computed from the current
\* width and height.
OnePassPerEvent ==
    phase = "idle" =>
        /\ Len(passes) = 1
        /\ \A k \in Passes :
              /\ passes[k].width = width /\ passes[k].height = height
              /\ passes[k].fit = fitTransform(designBB, width, height)

rawBB == aabbFromPoints(fitPoints(design))

SamePoints(ps, qs) ==
    /\ Len(ps) = Len(qs)
    /\ \A i \in 1..Len(ps) : Eq(ps[i].x, qs[i].x) /\ Eq(ps[i].y, qs[i].y)

PlaqueVerticesAreCorners(d) ==
    \A i \in Ops(d.log, IsPlaque) :
        LET op == d.log[i]
            box == Caller(op).arg
        IN  /\ op.ctm[1] = translate(d.fit.ox, d.fit.oy)
            /\ op.ctm[2] = scale(d.fit.s)
            /\ (op.fill \in {theme.ink, none}) =>
                  SamePoints(designPts(op), plaqueCorners(box, slant, skewK))
            /\ (op.fill = theme.shadow) =>
                  SamePoints(designPts(op),
                             plaqueCorners(offsetRect(box, shadowOff.x, shadowOff.y),
                                           slant, skewK))
            /\ (op.fill \in {theme.ink, none, theme.shadow}) =>
                  \A j \in 1..Len(op.pts) : InBox(designPts(op)[j], rawBB)

\* C9: the design-space vertices drawPlaque draws for the main parallelogram
\* (fill and outline) are plaqueCorners(box, slant, skewK), those of the shadow
\* are plaqueCorners(offsetRect(box, shadowOff), slant, skewK), and the
\* un-inflated bounding box contains all of them.
PlaquesDrawnAtCorners == \A k \in Passes : PlaqueVerticesAreCorners(passes[k])

PlaquesDrawnAtCornersWitness ==
    /\ phase = "idle"
    /\ passes # <<>>
    /\ \E i \in Ops(passes[1].log, IsPlaque) :
          /\ passes[1].log[i].fill = theme.shadow
          /\ Caller(passes[1].log[i]).arg = fast
          /\ Len(designPts(passes[1].log[i])) = 4
          /\ ~Eq(designPts(passes[1].log[i])[1].y, designPts(passes[1].log[i])[2].y)

IsMotifOrBadgeShape(op) == (IsMotif(op) \/ IsBadge(op)) /\ op.kind \in {"shape", "line"}

MotifsInside(d) ==
    \A i \in Ops(d.log, IsMotifOrBadgeShape) :
        LET op == d.log[i]
        IN  /\ op.ctm[1] = translate(d.fit.ox, d.fit.oy)
            /\ op.ctm[2] = scale(d.fit.s)
            /\ \A j \in 1..Len(op.pts) :
                  /\ InBox(designPts(op)[j], designBB)
                  /\ (d.width > 2 * padPx /\ d.height > 2 * padPx) =>
                        InMargins(canvasPts(op)[j], d.width, d.height)

\* C10: every vertex of drawMountainHint, every line endpoint of
\* drawSpeedLines and every vertex of the ampersand badge and its shadow lies
\* inside the inflated bounding box, and on a viewport with W > 2*padPx and
\* H > 2*padPx its canvas position is inside [padPx, W-padPx] x [padPx, H-padPx].
MotifsInsideInflatedBox == \A k \in Passes : MotifsInside(passes[k])

MotifsInsideWitness ==
    /\ phase = "idle"
    /\ passes # <<>>
    /\ width > 2 * padPx
    /\ height > 2 * padPx
    /\ \E i \in Ops(passes[1].log, IsMotifOrBadgeShape) :
          /\ Caller(passes[1].log[i]).fn = "drawSpeedLines"
          /\ Lt(designPts(passes[1].log[i])[1].x, rawBB.minX)
    /\ \E i \in Ops(passes[1].log, IsMotifOrBadgeShape) :
          /\ IsBadge(passes[1].log[i])
          /\ Len(passes[1].log[i].pts) = 3

(* ------------------------ the graphics-state stack --------------------- *)
Helpers ==
    {"drawPlaque", "drawWordInPlaque", "drawAmpBadgeBetween", "drawMountainHint",
     "drawSpeedLines"}

\* the positions in trace t of the returns of the sketch's functions
Returns(t) == {j \in 1..Len(t) : t[j].cmd.op = "return"}

\* the position of the call that the return at position j of t answers
CallOf(t, j) ==
    CHOOSE i \in 1..j :
        /\ t[i].cmd.op = "call"
        /\ t[i].nest = t[j].nest + 1
        /\ \A k \in (i + 1)..(j - 1) : t[k].nest > t[j].nest

HelpersBalanced(t) ==
    \A j \in Returns(t) :
        t[CallOf(t, j)].cmd.fn \in Helpers =>
            /\ t[j].depth = t[CallOf(t, j)].depth
            /\ t[j].ctm = t[CallOf(t, j)].ctm

\* translate(ox, oy); scale(s) run once, directly after the first push, and
\* the pop of that push is the last call of the pass
FitAppliedOnce(d) ==
    /\ Len(d.trace) > 4
    /\ d.trace[1].cmd = push
    /\ d.trace[2].cmd = translate(d.fit.ox, d.fit.oy)
    /\ d.trace[3].cmd = scale(d.fit.s)
    /\ {i \in 1..Len(d.trace) : d.trace[i].cmd.op = "scale"} = {3}
    /\ {i \in 1..Len(d.trace) : d.trace[i].cmd.op = "translate" /\ d.trace[i].nest = 0} = {2}
    /\ d.trace[Len(d.trace)].cmd = pop
    /\ \A i \in 1..(Len(d.trace) - 1) : d.trace[i].depth >= 1

StackBalanced(d) ==
    /\ ~d.underflow
    /\ HelpersBalanced(d.trace)
    /\ FitAppliedOnce(d)
    /\ d.depth = 0
    /\ d.ctm = <<>>
    /\ d.trace[Len(d.trace)].depth = 0

\* C11: in every render pass no pop finds the stack empty; each of drawPlaque,
\* drawWordInPlaque, drawAmpBadgeBetween, drawMountainHint and drawSpeedLines
\* returns with the stack depth and the transform it was called with; the fit
\* (translate, then scale) is applied exactly once, inside one push / pop
\* pair; and the depth is 0 again when draw() returns.
GraphicsStackBalanced == \A k \in Passes : StackBalanced(passes[k])

GraphicsStackBalancedWitness ==
    /\ phase = "idle"
    /\ Len(passes) = 2
    /\ Cardinality({j \in Returns(passes[2].trace) :
                       passes[2].trace[CallOf(passes[2].trace, j)].cmd.fn \in Helpers}) = 7
    /\ \E j \in Returns(passes[2].trace) :
          /\ passes[2].trace[CallOf(passes[2].trace, j)].cmd.fn = "drawPlaque"
          /\ passes[2].trace[j].depth = 1
          /\ Len(passes[2].trace[j].ctm) = 2
          /\ \E k \in CallOf(passes[2].trace, j)..j :
                passes[2].trace[k].depth = 2 /\ Len(passes[2].trace[k].ctm) = 6
====
